---- MODULE Spec2Model ----
(***************************************************************************)
(* Credential and account-recovery core of aurora_backend: the recovery    *)
(* token store (TokenRepository over PasswordResetToken), the user         *)
(* directory (UserRepositoryImpl) and the orchestrator (AuthService).      *)
(*                                                                         *)
(* Time is counted in units of five minutes.  Each request is served by a  *)
(* process of Procs; every repository call is one atomic database          *)
(* statement, and a request's calls interleave with those of the other     *)
(* requests (Spec) or run to completion one request at a time (SeqSpec).   *)
(***************************************************************************)
EXTENDS Integers, Sequences, FiniteSets, TLC

(* ------------------------------ bounds -------------------------------- *)

\* rows the password_reset_tokens table may hold
MaxTokens == 2
\* last instant of the clock
MaxTime == 2
\* cap of a token's failed-attempt counter
MaxAttempts == 6
\* user rows that Register may add
MaxRegistered == 2
\* rows of the table and last instant of the clock where the rate limit is explored
RateTokens == 4
RateTime == 3

(* ------------------------- program constants -------------------------- *)

MaxLoginAttempts == 5
ResetTokenRateLimit == 3
ResetTokenRateWindow == 12
ResetTokenEmailExpiration == 3
ResetTokenSMSExpiration == 1
RevokeThreshold == 5
MinPasswordLength == 8
MaxPasswordLength == 72
NumericCodeLength == 6
RandomTokenLength == 32
TokenExpirationAccess == 3
TokenExpirationRefresh == 2016

TokenChannelEmail == "EMAIL"
TokenChannelSMS == "SMS"
TokenChannelWhatsapp == "WHATSAPP"
TokenChannel == {TokenChannelEmail, TokenChannelSMS, TokenChannelWhatsapp}

TokenStatusActive == "ACTIVE"
TokenStatusUsed == "USED"
TokenStatusExpired == "EXPIRED"
TokenStatusRevoked == "REVOKED"
TokenStatus == {TokenStatusActive, TokenStatusUsed, TokenStatusExpired, TokenStatusRevoked}

UserStatusActive == "ACTIVE"
UserStatusInactive == "INACTIVE"
UserStatusPending == "PENDING"
UserStatusBlocked == "BLOCKED"
UserStatus == {UserStatusActive, UserStatusInactive, UserStatusPending, UserStatusBlocked}

UserRoleClient == "CLIENT"
UserRoleProfessional == "PROFESSIONAL"
UserRoleStaff == "STAFF"
UserRoleAdmin == "ADMIN"
UserRole == {UserRoleClient, UserRoleProfessional, UserRoleStaff, UserRoleAdmin}

(* ------------------------------ universe ------------------------------ *)

Procs == {"p1", "p2"}
Users == {"u1", "u2"}
NoUser == "nobody"
\* what a request may carry as e-mail address or phone number
Identifiers == Users \cup {NoUser}
\* outcomes of the random source
RandomDraws == {1, 2}

\* a password, by its length and the character classes it contains
Password(id, len, classes) == [id |-> id, len |-> len, classes |-> classes]
PwInitial == Password("Abc123!@", 8, {"upper", "lower", "digit", "special"})
PwStrong == Password("Xyz98765", 8, {"upper", "lower", "digit"})
PwWeak == Password("password1", 9, {"lower", "digit"})
PwShort == Password("Ab1!", 4, {"upper", "lower", "digit", "special"})
PwLong == Password("Abc123!@+65", 73, {"upper", "lower", "digit", "special"})
NoPassword == Password("", 0, {})
Passwords == {PwInitial, PwStrong, PwWeak, PwShort, PwLong}

(* -------------------------- Credential Hasher -------------------------- *)

ValidatePasswordLength(password) ==
    IF password.len < MinPasswordLength THEN "PasswordTooShort"
    ELSE IF password.len > MaxPasswordLength THEN "PasswordTooLong"
    ELSE "ok"

\* mutant of ValidatePasswordStrength: every password passes
ValidatePasswordStrengthLax(password) == "ok"

ValidatePasswordStrength(password) ==
    IF ValidatePasswordLength(password) # "ok" THEN ValidatePasswordLength(password)
    ELSE LET score == Cardinality(password.classes
                                   \cap {"upper", "lower", "digit", "special"})
         IN  IF score < 3 THEN "PasswordTooWeak" ELSE "ok"

NoHash == [alg |-> "none", digest |-> ""]

HashPassword(password) ==
    IF ValidatePasswordLength(password) # "ok"
    THEN [err |-> ValidatePasswordLength(password), hash |-> NoHash]
    ELSE [err |-> "ok", hash |-> [alg |-> "bcrypt", digest |-> password.id]]

VerifyPassword(hashedPassword, password) ==
    hashedPassword.alg = "bcrypt" /\ hashedPassword.digest = password.id

GenerateRandomToken(length, draw) ==
    [alphabet |-> "urlsafe", len |-> IF length <= 0 THEN 32 ELSE length, draw |-> draw]

GenerateNumericCode(length, draw) ==
    [alphabet |-> "digits", len |-> IF length <= 0 THEN NumericCodeLength ELSE length,
     draw |-> draw]

\* the secrets the generators can produce
Issuable ==
    {GenerateRandomToken(RandomTokenLength, d) : d \in RandomDraws}
      \cup {GenerateNumericCode(NumericCodeLength, d) : d \in RandomDraws}
NoSecret == [alphabet |-> "none", len |-> 0, draw |-> 0]
\* every secret a client may present: the issuable ones and one that is never issued
Secrets == Issuable \cup {[alphabet |-> "urlsafe", len |-> RandomTokenLength, draw |-> 0]}

(* ------------------------------- state -------------------------------- *)

VARIABLES
    now,          \* the clock (time.Now())
    users,        \* the users table: id -> row
    tokens,       \* the password_reset_tokens table, keyed by the unique token column
    pc,           \* per request process: where it stands
    local,        \* per request process: its local variables
    result,       \* the result of the call that has just returned, until the caller
                  \* has taken it
    redeemed,     \* per token row: ResetPassword calls that succeeded with it (history)
    outbox,       \* per secret: the calls of the notification services that carried it,
                  \* in order (history)
    establishments \* the estabilishments table: its rows in the order of their creation

vars == <<now, users, tokens, pc, local, result, redeemed, outbox, establishments>>

NoSnapshot == [email |-> NoUser, phone |-> NoUser, name |-> "", timezone |-> "",
               passwordHash |-> NoHash,
               role |-> "CLIENT", status |-> "none", failedLoginCount |-> 0,
               lastLoginAt |-> <<>>, deletedAt |-> <<>>, deletedBy |-> NoUser]
NoLocal == [u |-> NoUser, tok |-> NoSecret, ch |-> "none", pw |-> NoPassword,
            snap |-> NoSnapshot]
\* the claims of a credential, and a credential: whether it parses, the signing
\* method and key of its signature, and its claims
NoClaims == [userId |-> NoUser, role |-> "none", type |-> "none", exp |-> 0, iat |-> 0,
             issuer |-> "none"]
NoCredential == [wellFormed |-> FALSE, alg |-> "none", key |-> "", claims |-> NoClaims]

\* the values RequireAuth stores in the request context
NoKeys == [exists |-> FALSE, user |-> NoSnapshot, userId |-> NoUser, userRole |-> "none"]
\* the request context before any handler has run: no value stored, not aborted,
\* no response written
NewContext == [keys |-> NoKeys, aborted |-> FALSE, status |-> 0, code |-> ""]

NoResult == [proc |-> "none", op |-> "none", err |-> "none", u |-> NoUser,
             tok |-> NoSecret, pwChecked |-> FALSE,
             accessToken |-> NoCredential, refreshToken |-> NoCredential,
             claims |-> NoClaims, presented |-> NoCredential, ctx |-> NewContext]
\* what a call returns: the error ("ok" for nil), and for the record the user and
\* the token row the call was about and whether it compared a password
Result(op, err) == [NoResult EXCEPT !.op = op, !.err = err]
ResultFor(op, err, u, tok) == [NoResult EXCEPT !.op = op, !.err = err, !.u = u, !.tok = tok]

(* ------------------------- PasswordResetToken -------------------------- *)

\* mutant of IsValid: a token is still valid at the instant it expires
IsValidInclusive(t) == t.status = TokenStatusActive /\ now <= t.expiresAt

IsValid(t) == t.status = TokenStatusActive /\ now < t.expiresAt

MarkAsUsed(t) == [t EXCEPT !.status = TokenStatusUsed]

MarkAsExpired(t) == [t EXCEPT !.status = TokenStatusExpired]

TokenIncrementFailedAttempts(t) ==
    LET n == t.failedAttempts + 1
    IN  [t EXCEPT !.failedAttempts = n,
                  !.status = IF n >= RevokeThreshold THEN TokenStatusRevoked ELSE @]

(* --------------------------- TokenRepository --------------------------- *)

\* a key of the table that holds no row
NoToken == [userId |-> NoUser, token |-> NoSecret, channel |-> "none", status |-> "NONE",
            expiresAt |-> 0, failedAttempts |-> 0, createdAt |-> 0]

\* the rows of the table, each identified by its token column (a unique index)
TokenIds == {s \in Issuable : tokens[s] # NoToken}

RowOf(secret) == IF secret \in TokenIds THEN secret ELSE NoSecret

\* Create: the insert fails on a duplicate of the unique token column
CreateToken(token) ==
    IF RowOf(token.token) # NoSecret
    THEN [err |-> "StorageError", table |-> tokens]
    ELSE [err |-> "ok",
          table |-> [tokens EXCEPT ![token.token] = [token EXCEPT !.createdAt = now]]]

\* mutant of FindByToken: a token is expired from the instant of its expiry on
FindByTokenEager(secret) ==
    IF secret \in Issuable /\ tokens[secret].status = TokenStatusActive
       /\ now >= tokens[secret].expiresAt
    THEN [id |-> secret, err |-> "TokenExpired",
          table |-> [tokens EXCEPT ![secret] = [@ EXCEPT !.status = TokenStatusExpired]]]
    ELSE IF secret \in Issuable /\ tokens[secret].status = TokenStatusActive
         THEN [id |-> secret, err |-> "ok", table |-> tokens]
         ELSE [id |-> NoSecret, err |-> "TokenNotFound", table |-> tokens]

\* FindByToken: the row, the error, and the table after the lazy expiry
FindByToken(secret) ==
    LET i == RowOf(secret)
    IN  IF i = NoSecret THEN [id |-> i, err |-> "TokenNotFound", table |-> tokens]
        ELSE IF tokens[i].status = TokenStatusUsed
             THEN [id |-> i, err |-> "TokenAlreadyUsed", table |-> tokens]
        ELSE IF tokens[i].status = TokenStatusExpired
             THEN [id |-> i, err |-> "TokenExpired", table |-> tokens]
        ELSE IF tokens[i].status = TokenStatusRevoked
             THEN [id |-> i, err |-> "TokenRevoked", table |-> tokens]
        ELSE IF now > tokens[i].expiresAt
             THEN [id |-> i, err |-> "TokenExpired",
                   table |-> [tokens EXCEPT ![i] = MarkAsExpired(@)]]
        ELSE [id |-> i, err |-> "ok", table |-> tokens]

\* mutant of InvalidateAllUserTokens: the bulk update matches no row
InvalidateNone(table, userID) == table

InvalidateAllUserTokens(table, userID) ==
    [i \in DOMAIN table |->
        IF table[i].userId = userID /\ table[i].status = TokenStatusActive
        THEN [table[i] EXCEPT !.status = TokenStatusExpired]
        ELSE table[i]]

InvalidateToken(table, tokenID) ==
    [table EXCEPT ![tokenID] = [@ EXCEPT !.status = TokenStatusRevoked]]

\* mutant of MarkTokenAsUsed: every Active row is marked, whoever owns it
MarkEveryTokenAsUsed(table, tokenID) ==
    [i \in DOMAIN table |->
        IF i = tokenID \/ table[i].status = TokenStatusActive
        THEN MarkAsUsed(table[i]) ELSE table[i]]

\* mutant of MarkTokenAsUsed: the row is saved as it was read
MarkTokenUntouched(table, tokenID) == table

MarkTokenAsUsed(table, tokenID) == [table EXCEPT ![tokenID] = MarkAsUsed(@)]

IncrementFailedAttempts(table, tokenID) ==
    [table EXCEPT ![tokenID] = TokenIncrementFailedAttempts(@)]

\* rows of the user created after now - timeWindow, whatever their status
CountActiveTokensByUser(userID, timeWindow) ==
    Cardinality({i \in TokenIds :
        tokens[i].userId = userID /\ tokens[i].createdAt > now - timeWindow})

(* -------------------------- UserRepositoryImpl ------------------------- *)

\* the rows a query on the users table sees: the model has a DeletedAt column,
\* and every query but an unscoped one carries "deleted_at IS NULL"
NotDeleted == {u \in DOMAIN users : users[u].deletedAt = <<>>}

\* mutant of FindByID: the row is returned whatever its status, deleted or not
FindByIDAny(id) == IF id \in DOMAIN users THEN id ELSE NoUser

FindByID(id) ==
    IF id \in NotDeleted /\ users[id].status = UserStatusActive THEN id ELSE NoUser

\* mutant of FindByEmail: an address nobody has resolves to the first account
FindByEmailFallback(email) ==
    LET m == {u \in NotDeleted : users[u].email = email /\ users[u].status = UserStatusActive}
    IN  IF m = {} THEN CHOOSE u \in Users : TRUE ELSE CHOOSE u \in m : TRUE

FindByEmail(email) ==
    LET m == {u \in NotDeleted : users[u].email = email /\ users[u].status = UserStatusActive}
    IN  IF m = {} THEN NoUser ELSE CHOOSE u \in m : TRUE

FindByPhone(phone) ==
    LET m == {u \in NotDeleted : users[u].phone = phone /\ users[u].status = UserStatusActive}
    IN  IF m = {} THEN NoUser ELSE CHOOSE u \in m : TRUE

\* an UPDATE of the row with this id: it reaches no row that is deleted
UpdateColumns(id, row) ==
    IF id \in NotDeleted THEN [users EXCEPT ![id] = row] ELSE users

\* mutant of Update: the record is saved whether or not the row is deleted
UpdateUnscoped(user, row) ==
    [err |-> "ok", table |-> [users EXCEPT ![user] = row]]

\* Update(user): the row is looked up by its id, then the whole record is saved
Update(user, row) ==
    IF user \notin NotDeleted THEN [err |-> "UserNotFound", table |-> users]
    ELSE [err |-> "ok", table |-> UpdateColumns(user, row)]

(* ------------------------------- JWTUtil ------------------------------- *)

\* JWTConfig as main.go sets it
AccessSecret == "access_secret_key"
RefreshSecret == "refresh_secret_key"
Issuer == "aurora_backend"

Claims(userID, role, type, expiration) ==
    [userId |-> userID, role |-> role, type |-> type, exp |-> now + expiration,
     iat |-> now, issuer |-> Issuer]

\* SignedString: an HMAC method signs with a byte-string key, an ECDSA method
\* rejects it
SignedString(method, claims, secret) ==
    IF method = "HS256"
    THEN [err |-> "ok",
          token |-> [wellFormed |-> TRUE, alg |-> method, key |-> secret, claims |-> claims]]
    ELSE [err |-> "InvalidKeyType", token |-> NoCredential]

GenerateAccessToken(userID, role) ==
    SignedString("HS256", Claims(userID, role, "access", TokenExpirationAccess),
                 AccessSecret)

GenerateRefreshToken(userID, role) ==
    SignedString("ES256", Claims(userID, role, "refresh", TokenExpirationRefresh),
                 RefreshSecret)

GenerateTokenPair(userID, role) ==
    LET access == GenerateAccessToken(userID, role)
        refresh == GenerateRefreshToken(userID, role)
        none(err) == [err |-> err, accessToken |-> NoCredential,
                      refreshToken |-> NoCredential]
    IN  IF access.err # "ok" THEN none(access.err)
        ELSE IF refresh.err # "ok" THEN none(refresh.err)
        ELSE [err |-> "ok", accessToken |-> access.token, refreshToken |-> refresh.token]

\* mutant of ClaimsValid: a credential is expired from the instant of its expiry on
ClaimsValidEager(claims) ==
    (IF now >= claims.exp THEN {"Expired"} ELSE {})
      \cup (IF now < claims.iat THEN {"IssuedAt"} ELSE {})

\* StandardClaims.Valid as ParseWithClaims calls it: the validation errors of the
\* expiry and of the issue time
ClaimsValid(claims) ==
    (IF now > claims.exp THEN {"Expired"} ELSE {})
      \cup (IF now < claims.iat THEN {"IssuedAt"} ELSE {})

\* jwt.ParseWithClaims with the key function of validateToken: the validation
\* errors of the jwt.ValidationError it returns, none if the token is valid
ParseWithClaims(tokenString, secret) ==
    IF ~tokenString.wellFormed THEN {"Malformed"}
    ELSE IF tokenString.alg # "HS256" THEN {"Unverifiable"}
    ELSE ClaimsValid(tokenString.claims)
           \cup (IF tokenString.key # secret THEN {"SignatureInvalid"} ELSE {})

\* validateToken, whose ErrInvalidToken is the one of package utils and not the
\* one of the services: the error of the parser is a *jwt.ValidationError, never the
\* value jwt.ErrSignatureInvalid itself, so it is ExpiredToken if the expiry is
\* among its errors and is returned as it is otherwise
validateToken(tokenString, secret, tokenType) ==
    LET errors == ParseWithClaims(tokenString, secret)
    IN  IF errors # {}
        THEN IF "Expired" \in errors
             THEN [err |-> "ExpiredToken", claims |-> NoClaims]
             ELSE [err |-> "jwt.ValidationError", claims |-> NoClaims]
        ELSE IF tokenString.claims.type # tokenType
             THEN [err |-> "utils.ErrInvalidToken", claims |-> NoClaims]
        ELSE [err |-> "ok", claims |-> tokenString.claims]

ValidateAccessToken(tokenString) == validateToken(tokenString, AccessSecret, "access")

ValidateRefreshToken(tokenString) == validateToken(tokenString, RefreshSecret, "refresh")

\* the credentials a client may present: one that does not parse, and the
\* well-formed ones by signing method, signing key and claims
CredentialExpiries == {0, 1, 3}
CredentialIssueTimes == {0, 2}
Credentials ==
    {NoCredential} \cup
    [wellFormed : {TRUE}, alg : {"HS256", "ES256"},
     key : {AccessSecret, RefreshSecret, "forged_key"},
     claims : [userId : Users, role : {UserRoleClient}, type : {"access", "refresh"},
               exp : CredentialExpiries, iat : CredentialIssueTimes,
               issuer : {Issuer, "other_issuer"}]]

\* a refresh credential as the configured issuer would sign it with the HMAC method
RefreshCredential(userID, role, exp) ==
    [wellFormed |-> TRUE, alg |-> "HS256", key |-> RefreshSecret,
     claims |-> [userId |-> userID, role |-> role, type |-> "refresh", exp |-> exp,
                 iat |-> 0, issuer |-> Issuer]]

\* the credentials presented to RefreshToken
RefreshInputs ==
    {RefreshCredential(u, UserRoleClient, 3) : u \in Users}
      \cup {RefreshCredential("u1", UserRoleClient, 0),
            GenerateAccessToken("u1", UserRoleClient).token,
            NoCredential}

(* -------------------------------- Init --------------------------------- *)

Init ==
    /\ now = 0
    /\ users = [u \in Users |->
                  [email |-> u, phone |-> IF u = "u1" THEN u ELSE "",
                   name |-> u, timezone |-> "UTC",
                   passwordHash |-> HashPassword(PwInitial).hash,
                   role |-> UserRoleClient, status |-> UserStatusActive,
                   failedLoginCount |-> 0, lastLoginAt |-> <<>>,
                   deletedAt |-> <<>>, deletedBy |-> NoUser]]
    /\ tokens = [s \in Issuable |-> NoToken]
    /\ pc = [p \in Procs |-> "idle"]
    /\ local = [p \in Procs |-> NoLocal]
    /\ result = NoResult
    /\ redeemed = [s \in Issuable |-> 0]
    /\ outbox = [s \in Issuable |-> <<>>]
    /\ establishments = <<>>

\* process p stands at label, and no result waits for its caller
At(p, label) == result = NoResult /\ pc[p] = label

\* the call of process p returns r
Return(p, r) ==
    /\ pc' = [pc EXCEPT ![p] = "idle"]
    /\ local' = [local EXCEPT ![p] = NoLocal]
    /\ result' = [r EXCEPT !.proc = p]

\* process p goes on to the step at label, with its locals l
Goto(p, label, l) ==
    /\ pc' = [pc EXCEPT ![p] = label]
    /\ local' = [local EXCEPT ![p] = l]
    /\ UNCHANGED result

\* the caller takes the result of the call that has just returned
Respond ==
    /\ result # NoResult
    /\ result' = NoResult
    /\ UNCHANGED <<now, users, tokens, pc, local, redeemed, outbox, establishments>>

(* ----------------------- AuthService: recovery ------------------------- *)

\* mutant of NewToken: the expiry is one unit late
NewTokenLate(userID, secret, channel, expiration) ==
    [userId |-> userID, token |-> secret, channel |-> channel,
     status |-> TokenStatusActive, expiresAt |-> now + expiration + 1,
     failedAttempts |-> 0, createdAt |-> now]

NewToken(userID, secret, channel, expiration) ==
    [userId |-> userID, token |-> secret, channel |-> channel,
     status |-> TokenStatusActive, expiresAt |-> now + expiration,
     failedAttempts |-> 0, createdAt |-> now]

\* requests in flight that will still insert a row
Inserting == {q \in Procs : pc[q] \in {"fp_invalidate", "fp_create"}}
RoomFor(capacity) == Cardinality(TokenIds) + Cardinality(Inserting) < capacity
RoomForToken == RoomFor(MaxTokens)

\* the steps every forgot-password request starts with: resolve the user, check the
\* status, count the tokens of the rate window.  countErr is what the operation
\* returns when the count fails, dbOk whether the count statement succeeds, and
\* capacity the rows the table may hold.
ForgotPasswordStart(p, op, channel, user, notFound, timeWindow, countErr, dbOk, capacity) ==
    /\ At(p, "idle")
    /\ UNCHANGED <<now, users, tokens, redeemed, outbox, establishments>>
    /\ LET res(err) == ResultFor(op, err, user, NoSecret)
       IN  IF user = NoUser THEN Return(p, res(notFound))
           ELSE IF users[user].status # UserStatusActive
                THEN Return(p, res("UserInactive"))
           ELSE IF ~dbOk THEN Return(p, res(countErr))
           ELSE IF CountActiveTokensByUser(user, timeWindow) >= ResetTokenRateLimit
                THEN Return(p, res("TooManyRequests"))
           ELSE /\ RoomFor(capacity)
                /\ Goto(p, "fp_invalidate", [NoLocal EXCEPT !.u = user, !.ch = channel])

ForgotPasswordEmailStart(p, email, dbOk, capacity) ==
        ForgotPasswordStart(p, "ForgotPasswordEmail", TokenChannelEmail,
                            FindByEmail(email), "EmailNotFound",
                            ResetTokenRateWindow, "ok", dbOk, capacity)

ForgotPasswordSMSStart(p, phone, dbOk, capacity) ==
        ForgotPasswordStart(p, "ForgotPasswordSMS", TokenChannelSMS,
                            FindByPhone(phone), "PhoneNotFound",
                            ResetTokenEmailExpiration, "StorageError", dbOk, capacity)

ForgotPasswordWhatsAppStart(p, phone, dbOk, capacity) ==
        ForgotPasswordStart(p, "ForgotPasswordWhatsApp", TokenChannelWhatsapp,
                            FindByPhone(phone), "PhoneNotFound",
                            ResetTokenRateWindow, "StorageError", dbOk, capacity)

ForgotPasswordEmailCall(p, email) ==
    \E dbOk \in BOOLEAN : ForgotPasswordEmailStart(p, email, dbOk, MaxTokens)

ForgotPasswordSMSCall(p, phone) ==
    \E dbOk \in BOOLEAN : ForgotPasswordSMSStart(p, phone, dbOk, MaxTokens)

ForgotPasswordWhatsAppCall(p, phone) ==
    \E dbOk \in BOOLEAN : ForgotPasswordWhatsAppStart(p, phone, dbOk, MaxTokens)

ForgotPasswordEmail(p) == \E email \in Identifiers : ForgotPasswordEmailCall(p, email)

ForgotPasswordSMS(p) == \E phone \in Identifiers : ForgotPasswordSMSCall(p, phone)

ForgotPasswordWhatsApp(p) == \E phone \in Identifiers : ForgotPasswordWhatsAppCall(p, phone)

OpOf(channel) ==
    IF channel = TokenChannelEmail THEN "ForgotPasswordEmail"
    ELSE IF channel = TokenChannelSMS THEN "ForgotPasswordSMS"
    ELSE "ForgotPasswordWhatsApp"

FpResult(p, err) == ResultFor(OpOf(local[p].ch), err, local[p].u, local[p].tok)

\* TokenRepo.InvalidateAllUserTokens(user.ID); on failure the SMS operation
\* returns nil, the others the error
ForgotPasswordInvalidate(p) ==
    /\ At(p, "fp_invalidate")
    /\ UNCHANGED <<now, users, redeemed, outbox, establishments>>
    /\ \E dbOk \in BOOLEAN :
         IF dbOk
         THEN /\ tokens' = InvalidateAllUserTokens(tokens, local[p].u)
              /\ Goto(p, "fp_create", local[p])
         ELSE /\ UNCHANGED tokens
              /\ Return(p, FpResult(p,
                     IF local[p].ch = TokenChannelSMS THEN "ok" ELSE "StorageError"))

\* the secret is generated and the token record created
ForgotPasswordCreate(p) ==
    /\ At(p, "fp_create")
    /\ UNCHANGED <<now, users>>
    /\ \E draw \in RandomDraws, dbOk \in BOOLEAN :
         LET ch == local[p].ch
             secret == IF ch = TokenChannelEmail
                       THEN GenerateRandomToken(RandomTokenLength, draw)
                       ELSE GenerateNumericCode(6, draw)
             expiration == IF ch = TokenChannelEmail
                           THEN ResetTokenEmailExpiration
                           ELSE ResetTokenSMSExpiration
             created == CreateToken(NewToken(local[p].u, secret, ch, expiration))
         IN  IF dbOk /\ created.err = "ok"
             THEN /\ tokens' = created.table
                  /\ UNCHANGED <<redeemed, outbox, establishments>>
                  /\ Goto(p, "fp_dispatch", [local[p] EXCEPT !.tok = secret])
             ELSE /\ UNCHANGED <<tokens, redeemed, outbox, establishments>>
                  /\ Return(p, FpResult(p, "StorageError"))

\* mutant of ServiceOf: every operation sends by e-mail
ServiceAlwaysEmail(op) == "EmailService"

\* the notification service each operation calls, and the address it sends to
ServiceOf(op) ==
    IF op = "ForgotPasswordEmail" THEN "EmailService"
    ELSE IF op = "ForgotPasswordSMS" THEN "SMSService"
    ELSE "WhatsAppService"

AddressOf(op, user) ==
    IF op = "ForgotPasswordEmail" THEN users[user].email ELSE users[user].phone

\* the notification service of the operation is called once with the secret; it
\* sends the message or fails, and its error is the result
ForgotPasswordDispatch(p) ==
    /\ At(p, "fp_dispatch")
    /\ UNCHANGED <<now, users, tokens, redeemed, establishments>>
    /\ \E sent \in BOOLEAN :
         /\ outbox' = [outbox EXCEPT ![local[p].tok] =
                          Append(@, [service |-> ServiceOf(OpOf(local[p].ch)),
                                     to |-> AddressOf(OpOf(local[p].ch), local[p].u)])]
         /\ Return(p, FpResult(p, IF sent THEN "ok" ELSE "DeliveryError"))

ValidateResetTokenCall(p, secret) ==
    /\ At(p, "idle")
    /\ UNCHANGED <<now, users, redeemed, outbox, establishments>>
    /\ LET found == FindByToken(secret)
           res(err) == ResultFor("ValidateResetToken", err, NoUser, found.id)
       IN  /\ tokens' = found.table
           /\ IF found.err # "ok" THEN Return(p, res("InvalidToken"))
              ELSE IF ~IsValid(found.table[found.id]) THEN Return(p, res("InvalidToken"))
              ELSE Return(p, res("ok"))

ValidateResetToken(p) == \E secret \in Secrets : ValidateResetTokenCall(p, secret)

\* ResetPassword up to the validity check of the token
ResetPasswordCall(p, secret, password, confirmPassword) ==
    /\ At(p, "idle")
    /\ UNCHANGED <<now, users, redeemed, outbox, establishments>>
    /\ LET res(err) == ResultFor("ResetPassword", err, NoUser, RowOf(secret))
       IN  IF ValidatePasswordStrength(password) # "ok"
           THEN /\ UNCHANGED tokens
                /\ Return(p, res("PasswordTooWeak"))
           ELSE IF password # confirmPassword
           THEN /\ UNCHANGED tokens
                /\ Return(p, res("PasswordConfirmation"))
           ELSE LET found == FindByToken(secret)
                IN  /\ tokens' = found.table
                    /\ IF found.err # "ok" THEN Return(p, res("InvalidToken"))
                       ELSE IF ~IsValid(found.table[found.id])
                            THEN Return(p, res("InvalidToken"))
                       ELSE Goto(p, "rp_user",
                                 [NoLocal EXCEPT !.tok = found.id, !.pw = password,
                                                 !.u = tokens[found.id].userId])

\* the confirmation repeats the password or is another one
Confirmations(password) == {password, IF password = PwStrong THEN PwInitial ELSE PwStrong}

ResetPassword(p) ==
    \E secret \in Secrets, password \in Passwords :
        \E confirmPassword \in Confirmations(password) :
            ResetPasswordCall(p, secret, password, confirmPassword)

RpResult(p, err) == ResultFor("ResetPassword", err, local[p].u, local[p].tok)

\* UserRepo.FindByID(token.UserID), the status check and the hash of the password
ResetPasswordFindUser(p) ==
    /\ At(p, "rp_user")
    /\ UNCHANGED <<now, users, tokens, redeemed, outbox, establishments>>
    /\ LET user == FindByID(local[p].u)
           hashed == HashPassword(local[p].pw)
       IN  IF user = NoUser THEN Return(p, RpResult(p, "UserNotFound"))
           ELSE IF users[user].status # UserStatusActive
                THEN Return(p, RpResult(p, "UserInactive"))
           ELSE IF hashed.err # "ok" THEN Return(p, RpResult(p, hashed.err))
           ELSE Goto(p, "rp_update", [local[p] EXCEPT !.snap = users[user]])

\* UserRepo.Update(user): the whole record read earlier is saved
ResetPasswordUpdate(p) ==
    /\ At(p, "rp_update")
    /\ UNCHANGED <<now, tokens, redeemed, outbox, establishments>>
    /\ \E dbOk \in BOOLEAN :
         LET user == [local[p].snap EXCEPT
                        !.passwordHash = HashPassword(local[p].pw).hash,
                        !.failedLoginCount = 0]
             updated == Update(local[p].u, user)
         IN  IF ~dbOk
             THEN /\ UNCHANGED users
                  /\ Return(p, RpResult(p, "StorageError"))
             ELSE IF updated.err # "ok"
             THEN /\ UNCHANGED users
                  /\ Return(p, RpResult(p, updated.err))
             ELSE /\ users' = updated.table
                  /\ Goto(p, "rp_mark", local[p])

\* TokenRepo.MarkTokenAsUsed(token.ID)
ResetPasswordMarkUsed(p) ==
    /\ At(p, "rp_mark")
    /\ UNCHANGED <<now, users, redeemed, outbox, establishments>>
    /\ \E dbOk \in BOOLEAN :
         IF dbOk
         THEN /\ tokens' = MarkTokenAsUsed(tokens, local[p].tok)
              /\ Goto(p, "rp_invalidate", local[p])
         ELSE /\ UNCHANGED tokens
              /\ Return(p, RpResult(p, "StorageError"))

\* TokenRepo.InvalidateAllUserTokens(user.ID), whose error is the result
ResetPasswordInvalidate(p) ==
    /\ At(p, "rp_invalidate")
    /\ UNCHANGED <<now, users, outbox, establishments>>
    /\ \E dbOk \in BOOLEAN :
         IF dbOk
         THEN /\ tokens' = InvalidateAllUserTokens(tokens, local[p].u)
              /\ redeemed' = [redeemed EXCEPT ![local[p].tok] = @ + 1]
              /\ Return(p, RpResult(p, "ok"))
         ELSE /\ UNCHANGED <<tokens, redeemed>>
              /\ Return(p, RpResult(p, "StorageError"))

(* ------------------------ AuthService: Register ------------------------ *)

\* the ids gen_random_uuid() gives to new rows, in the order it gives them
UserIdPool == <<"u3", "u4", "u5">>
Registered == DOMAIN users \ Users
RoomForUser == Cardinality(Registered) < MaxRegistered
NextUserId == UserIdPool[Cardinality(Registered) + 1]

\* the column default of timezone stands in for the empty string
TimezoneOrDefault(timezone) == IF timezone = "" THEN "UTC" ELSE timezone

\* what a registration request may carry
RegisterRequest ==
    {[email |-> e, phone |-> ph, name |-> "Ana", password |-> pw, confirmPassword |-> cpw,
      role |-> r, timezone |-> tz] :
        e \in {"u1", "e3", "e4"}, ph \in {"", "p3"}, pw \in {PwStrong, PwWeak},
        cpw \in {PwStrong, PwInitial}, r \in {UserRoleClient, UserRoleProfessional},
        tz \in {"", "America/Sao_Paulo"}}

\* rows that a count with this e-mail address, or this phone number, finds
\* mutant of CountByEmail: the count by e-mail address finds nothing
CountByEmailNone(email) == 0

CountByEmail(email) == Cardinality({u \in NotDeleted : users[u].email = email})
CountByPhone(phone) == Cardinality({u \in NotDeleted : users[u].phone = phone})

\* the unique index of the users table, on the e-mail address; the index on the
\* phone number is not unique
UniqueViolation(user) == \E u \in DOMAIN users : users[u].email = user.email

RegisterResult(p, err) == ResultFor("Register", err, local[p].u, NoSecret)

\* Register up to the first query of UserRepo.Create, the count by e-mail
RegisterCall(p, req) ==
    /\ At(p, "idle")
    /\ UNCHANGED <<now, users, tokens, redeemed, outbox, establishments>>
    /\ \E dbOk \in BOOLEAN :
         LET hashed == HashPassword(req.password)
             user == [email |-> req.email, phone |-> req.phone, name |-> req.name,
                      timezone |-> req.timezone, passwordHash |-> hashed.hash,
                      role |-> req.role, status |-> UserStatusActive,
                      failedLoginCount |-> 0, lastLoginAt |-> <<>>,
                      deletedAt |-> <<>>, deletedBy |-> NoUser]
         IN  IF ValidatePasswordStrength(req.password) # "ok"
             THEN Return(p, Result("Register", "PasswordTooWeak"))
             ELSE IF req.password # req.confirmPassword
             THEN Return(p, Result("Register", "PasswordConfirmation"))
             ELSE IF hashed.err # "ok" THEN Return(p, Result("Register", hashed.err))
             ELSE IF ~dbOk THEN Return(p, Result("Register", "StorageError"))
             ELSE IF CountByEmail(user.email) > 0
             THEN Return(p, Result("Register", "UserExists"))
             ELSE Goto(p, "reg_phone", [NoLocal EXCEPT !.snap = user])

Register(p) == \E req \in RegisterRequest : RegisterCall(p, req)

\* UserRepo.Create: the count by phone number, if the user has one
RegisterCountPhone(p) ==
    /\ At(p, "reg_phone")
    /\ UNCHANGED <<now, users, tokens, redeemed, outbox, establishments>>
    /\ IF local[p].snap.phone = "" THEN Goto(p, "reg_insert", local[p])
       ELSE \E dbOk \in BOOLEAN :
              IF ~dbOk THEN Return(p, RegisterResult(p, "StorageError"))
              ELSE IF CountByPhone(local[p].snap.phone) > 0
              THEN Return(p, RegisterResult(p, "UserExists"))
              ELSE Goto(p, "reg_insert", local[p])

\* UserRepo.Create: the insert of the row, which the table may refuse
RegisterInsert(p) ==
    /\ At(p, "reg_insert")
    /\ RoomForUser
    /\ UNCHANGED <<now, tokens, redeemed, outbox, establishments>>
    /\ \E dbOk \in BOOLEAN :
         LET user == [local[p].snap EXCEPT !.timezone = TimezoneOrDefault(@)]
         IN  IF ~dbOk \/ UniqueViolation(user)
             THEN /\ UNCHANGED users
                  /\ Return(p, RegisterResult(p, "StorageError"))
             ELSE /\ users' = users @@ (NextUserId :> user)
                  /\ IF user.role = UserRoleProfessional
                     THEN Goto(p, "reg_establishment", [local[p] EXCEPT !.u = NextUserId])
                     ELSE Return(p, ResultFor("Register", "ok", NextUserId, NoSecret))

\* UserRepo.CreateEstablishment for a professional
RegisterEstablishment(p) ==
    /\ At(p, "reg_establishment")
    /\ UNCHANGED <<now, users, tokens, redeemed, outbox>>
    /\ \E dbOk \in BOOLEAN :
         IF dbOk
         THEN /\ establishments' =
                    Append(establishments,
                           [userId |-> local[p].u, bussinessName |-> local[p].snap.name,
                            timezone |-> TimezoneOrDefault(local[p].snap.timezone),
                            status |-> UserStatusActive])
              /\ Return(p, RegisterResult(p, "ok"))
         ELSE /\ UNCHANGED establishments
              /\ Return(p, RegisterResult(p, "StorageError"))

\* the steps a Register in flight takes after its first
RegisterContinue(p) ==
    \/ RegisterCountPhone(p)
    \/ RegisterInsert(p)
    \/ RegisterEstablishment(p)

(* ------------------------- AuthService: Login -------------------------- *)

\* mutant of LoginBlocked: the lock starts one failure later
LoginBlockedLate(user) == users[user].failedLoginCount > MaxLoginAttempts

LoginBlocked(user) == users[user].failedLoginCount >= MaxLoginAttempts

\* Login up to the password comparison
LoginCall(p, email, password) ==
    /\ At(p, "idle")
    /\ UNCHANGED <<now, users, tokens, redeemed, outbox, establishments>>
    /\ LET user == FindByEmail(email)
           res(err) == ResultFor("Login", err, user, NoSecret)
       IN  IF user = NoUser THEN Return(p, res("InvalidLogin"))
           ELSE IF users[user].status # UserStatusActive
                THEN IF users[user].status = UserStatusBlocked
                     THEN Return(p, res("UserBlocked"))
                     ELSE Return(p, res("UserInactive"))
           ELSE IF LoginBlocked(user) THEN Return(p, res("UserBlocked"))
           ELSE IF ~VerifyPassword(users[user].passwordHash, password)
                THEN Goto(p, "login_failed", [NoLocal EXCEPT !.u = user])
                ELSE Goto(p, "login_ok", [NoLocal EXCEPT !.u = user,
                                                         !.snap = users[user]])

Login(p) == \E email \in Identifiers, password \in Passwords : LoginCall(p, email, password)

\* UserRepo.IncrementFailedLoginCount(user.ID), its error ignored
LoginFailed(p) ==
    /\ At(p, "login_failed")
    /\ UNCHANGED <<now, tokens, redeemed, outbox, establishments>>
    /\ \E dbOk \in BOOLEAN :
         /\ IF dbOk
            THEN users' = UpdateColumns(local[p].u,
                              [users[local[p].u] EXCEPT !.failedLoginCount = @ + 1])
            ELSE UNCHANGED users
         /\ Return(p, [ResultFor("Login", "InvalidLogin", local[p].u, NoSecret)
                         EXCEPT !.pwChecked = TRUE])

\* UserRepo.ResetFailedLoginCount(user.ID) and UserRepo.UpdateLastLogin(user.ID),
\* their errors ignored, then the token pair
LoginSucceeded(p) ==
    /\ At(p, "login_ok")
    /\ UNCHANGED <<now, tokens, redeemed, outbox, establishments>>
    /\ \E resetOk \in BOOLEAN, loginOk \in BOOLEAN :
         LET u == local[p].u
             pair == GenerateTokenPair(u, local[p].snap.role)
         IN  /\ users' = UpdateColumns(u,
                            [users[u] EXCEPT
                               !.failedLoginCount = IF resetOk THEN 0 ELSE @,
                               !.lastLoginAt = IF loginOk THEN <<now>> ELSE @])
             /\ Return(p, [ResultFor("Login", pair.err, u, NoSecret)
                             EXCEPT !.pwChecked = TRUE,
                                    !.accessToken = pair.accessToken,
                                    !.refreshToken = pair.refreshToken])

(* -------------------- AuthService: RefreshToken ------------------------ *)

RefreshTokenCall(p, refreshToken) ==
    /\ At(p, "idle")
    /\ UNCHANGED <<now, users, tokens, redeemed, outbox, establishments>>
    /\ LET validated == ValidateRefreshToken(refreshToken)
           user == FindByID(validated.claims.userId)
           res(err) == [ResultFor("RefreshToken", err, validated.claims.userId, NoSecret)
                          EXCEPT !.claims = validated.claims, !.presented = refreshToken]
       IN  IF validated.err # "ok" THEN Return(p, res(validated.err))
           ELSE IF user = NoUser THEN Return(p, res("UserNotFound"))
           ELSE IF users[user].status # UserStatusActive
                THEN Return(p, res("UserInactive"))
           ELSE LET pair == GenerateTokenPair(user, users[user].role)
                IN  Return(p, [res(pair.err) EXCEPT !.accessToken = pair.accessToken,
                                                    !.refreshToken = pair.refreshToken])

RefreshToken(p) == \E refreshToken \in RefreshInputs : RefreshTokenCall(p, refreshToken)

(* --------------- ClientAuthController: refresh endpoint ---------------- *)

\* the answer of the endpoint to what AuthService.RefreshToken returns: the
\* switch compares the error with the ErrInvalidToken and the ErrUserInactive
\* of the services
RefreshTokenResponse(err) ==
    IF err = "ok" THEN [status |-> 200, code |-> ""]
    ELSE IF err = "InvalidToken" THEN [status |-> 401, code |-> "INVALID_TOKEN"]
    ELSE IF err = "UserInactive" THEN [status |-> 403, code |-> "USER_INACTIVE"]
    ELSE [status |-> 500, code |-> "SERVER_ERROR"]

(* ------------------- AuthService: GetUserFromToken --------------------- *)

\* every error of the validation becomes the ErrInvalidToken of the services; the
\* error of FindByID is returned as it is
GetUserFromToken(tokenString) ==
    LET validated == ValidateAccessToken(tokenString)
        user == FindByID(validated.claims.userId)
    IN  IF validated.err # "ok" THEN [err |-> "InvalidToken", user |-> NoUser]
        ELSE IF user = NoUser THEN [err |-> "UserNotFound", user |-> NoUser]
        ELSE [err |-> "ok", user |-> user]

GetUserFromTokenCall(p, tokenString) ==
    /\ At(p, "idle")
    /\ UNCHANGED <<now, users, tokens, redeemed, outbox, establishments>>
    /\ LET got == GetUserFromToken(tokenString)
       IN  Return(p, [ResultFor("GetUserFromToken", got.err, got.user, NoSecret)
                        EXCEPT !.presented = tokenString])

(* --------------------------- AuthMiddleware ---------------------------- *)

\* an Authorization header: its first characters and the credential that follows
\* them, if any
NoHeader == [prefix |-> "", rest |-> <<>>]
AccessCredential(userID, exp) ==
    [wellFormed |-> TRUE, alg |-> "HS256", key |-> AccessSecret,
     claims |-> [userId |-> userID, role |-> UserRoleClient, type |-> "access",
                 exp |-> exp, iat |-> 0, issuer |-> Issuer]]
\* the credentials requests carry: access credentials of the users and of an id
\* that no row has, in force or expired, a refresh credential, a forged one and
\* one that does not parse
AccessInputs ==
    {AccessCredential(u, 3) : u \in Users \cup {"u9"}}
      \cup {AccessCredential("u1", 0), RefreshCredential("u1", UserRoleClient, 3),
            [AccessCredential("u1", 3) EXCEPT !.key = "forged_key"], NoCredential}
AuthorizationHeaders ==
    {NoHeader, [prefix |-> "Bearer ", rest |-> <<>>]}
      \cup {[prefix |-> pf, rest |-> <<c>>] : pf \in {"Bearer ", "Basic "}, c \in AccessInputs}

\* extractToken: what follows "Bearer ", the empty string if nothing does or the
\* header starts otherwise
extractToken(header) ==
    IF Len(header.rest) > 0 /\ header.prefix = "Bearer " THEN header.rest ELSE <<>>

\* SendErrorResponse followed by ctx.Abort()
AbortWith(ctx, status, code) == [ctx EXCEPT !.aborted = TRUE, !.status = status, !.code = code]

RequireAuth(ctx, header) ==
    LET tokenString == extractToken(header)
        got == GetUserFromToken(tokenString[1])
    IN  IF tokenString = <<>> THEN AbortWith(ctx, 401, "UNAUTHORIZED")
        ELSE IF got.err # "ok" THEN AbortWith(ctx, 401, "INVALID_TOKEN")
        ELSE IF users[got.user].status # UserStatusActive
             THEN AbortWith(ctx, 403, "USER_INACTIVE")
        ELSE [ctx EXCEPT !.keys = [exists |-> TRUE, user |-> users[got.user],
                                   userId |-> got.user,
                                   userRole |-> users[got.user].role]]

RequireRole(roles, ctx) ==
    IF ~ctx.keys.exists THEN AbortWith(ctx, 401, "UNAUTHORIZED")
    ELSE IF ctx.keys.user.role \notin roles THEN AbortWith(ctx, 403, "FORBIDDEN")
    ELSE ctx

RoleGuards == {"RequireClient", "RequireProfessional", "RequireAdmin", "RequireOwnerOrAdmin"}

\* mutant of RolesOf: the owner-or-admin guard lets the staff in as well
RolesOfLax(guard) ==
    IF guard = "RequireClient" THEN {UserRoleClient}
    ELSE IF guard = "RequireAdmin" THEN {UserRoleAdmin}
    ELSE {UserRoleProfessional, UserRoleStaff, UserRoleAdmin}

\* the roles each shortcut passes to RequireRole
RolesOf(guard) ==
    IF guard = "RequireClient" THEN {UserRoleClient}
    ELSE IF guard = "RequireProfessional"
         THEN {UserRoleProfessional, UserRoleStaff, UserRoleAdmin}
    ELSE IF guard = "RequireAdmin" THEN {UserRoleAdmin}
    ELSE {UserRoleProfessional, UserRoleAdmin}

\* the handlers of a route run in order until one aborts
RunChain(ctx, header, withAuth, guard) ==
    LET authed == IF withAuth THEN RequireAuth(ctx, header) ELSE ctx
    IN  IF authed.aborted \/ guard = "none" THEN authed
        ELSE RequireRole(RolesOf(guard), authed)

\* a request to a route behind RequireAuth alone
RequireAuthCall(p, header) ==
    /\ At(p, "idle")
    /\ UNCHANGED <<now, users, tokens, redeemed, outbox, establishments>>
    /\ Return(p, [Result("RequireAuth", "ok")
                    EXCEPT !.ctx = RunChain(NewContext, header, TRUE, "none"),
                           !.presented = IF extractToken(header) = <<>>
                                         THEN NoCredential ELSE extractToken(header)[1]])

\* a request to a route behind RequireAuth and one of the role shortcuts
GuardedCall(p, header, guard) ==
    /\ At(p, "idle")
    /\ UNCHANGED <<now, users, tokens, redeemed, outbox, establishments>>
    /\ Return(p, [Result(guard, "ok")
                    EXCEPT !.ctx = RunChain(NewContext, header, TRUE, guard)])

\* a request to a route behind a role shortcut that RequireAuth does not precede
UnauthenticatedCall(p, guard) ==
    /\ At(p, "idle")
    /\ UNCHANGED <<now, users, tokens, redeemed, outbox, establishments>>
    /\ Return(p, [Result("RequireRole", "ok")
                    EXCEPT !.ctx = RunChain(NewContext, NoHeader, FALSE, guard)])

(* ---------------------- JWTUtil called directly ------------------------ *)

IssuePairCall(p, userID, role) ==
    /\ At(p, "idle")
    /\ UNCHANGED <<now, users, tokens, redeemed, outbox, establishments>>
    /\ LET pair == GenerateTokenPair(userID, role)
       IN  Return(p, [ResultFor("IssuePair", pair.err, userID, NoSecret)
                        EXCEPT !.accessToken = pair.accessToken,
                               !.refreshToken = pair.refreshToken])

IssuePair(p) == \E userID \in Users, role \in UserRole : IssuePairCall(p, userID, role)

VerifyAccessCall(p, tokenString) ==
    /\ At(p, "idle")
    /\ UNCHANGED <<now, users, tokens, redeemed, outbox, establishments>>
    /\ LET validated == ValidateAccessToken(tokenString)
       IN  Return(p, [Result("VerifyAccess", validated.err)
                        EXCEPT !.claims = validated.claims, !.presented = tokenString])

VerifyAccess(p) == \E tokenString \in Credentials : VerifyAccessCall(p, tokenString)

VerifyRefreshCall(p, tokenString) ==
    /\ At(p, "idle")
    /\ UNCHANGED <<now, users, tokens, redeemed, outbox, establishments>>
    /\ LET validated == ValidateRefreshToken(tokenString)
       IN  Return(p, [Result("VerifyRefresh", validated.err)
                        EXCEPT !.claims = validated.claims, !.presented = tokenString])

VerifyRefresh(p) == \E tokenString \in Credentials : VerifyRefreshCall(p, tokenString)

(* ------------- UserRepositoryImpl operations called directly ----------- *)

\* Update(user) with a record whose status the caller has set
UserRepoUpdate(id, status) ==
    /\ result = NoResult
    /\ \A p \in Procs : pc[p] = "idle"
    /\ users[id].status # status
    /\ Update(id, [users[id] EXCEPT !.status = status]).err = "ok"
    /\ users' = Update(id, [users[id] EXCEPT !.status = status]).table
    /\ UNCHANGED <<now, tokens, pc, local, result, redeemed, outbox, establishments>>

\* Update(user) with a record whose role the caller has set
UserRepoUpdateRole(id, role) ==
    /\ result = NoResult
    /\ \A p \in Procs : pc[p] = "idle"
    /\ users[id].role # role
    /\ Update(id, [users[id] EXCEPT !.role = role]).err = "ok"
    /\ users' = Update(id, [users[id] EXCEPT !.role = role]).table
    /\ UNCHANGED <<now, tokens, pc, local, result, redeemed, outbox, establishments>>

\* Delete(id, deletedBy): the row becomes Inactive and its deletion is recorded;
\* requests in flight go on
Delete(id, deletedBy) ==
    /\ result = NoResult
    /\ id \in NotDeleted
    /\ users' = [users EXCEPT ![id].status = UserStatusInactive,
                              ![id].deletedAt = <<now>>,
                              ![id].deletedBy = deletedBy]
    /\ UNCHANGED <<now, tokens, pc, local, result, redeemed, outbox, establishments>>

(* ------------- TokenRepository operations called directly ------------- *)

\* no request is in flight and no result waits for its caller
Quiescent == result = NoResult /\ \A p \in Procs : pc[p] = "idle"

StoreInvalidateToken(tokenID) ==
    /\ Quiescent
    /\ tokenID \in TokenIds
    /\ tokens' = InvalidateToken(tokens, tokenID)
    /\ UNCHANGED <<now, users, pc, local, result, redeemed, outbox, establishments>>

StoreMarkTokenAsUsed(tokenID) ==
    /\ Quiescent
    /\ tokenID \in TokenIds
    /\ tokens' = MarkTokenAsUsed(tokens, tokenID)
    /\ UNCHANGED <<now, users, pc, local, result, redeemed, outbox, establishments>>

StoreIncrementFailedAttempts(tokenID) ==
    /\ Quiescent
    /\ tokenID \in TokenIds
    /\ tokens[tokenID].failedAttempts < MaxAttempts
    /\ tokens' = IncrementFailedAttempts(tokens, tokenID)
    /\ UNCHANGED <<now, users, pc, local, result, redeemed, outbox, establishments>>

\* the clock advances, up to the last instant of the run
TickWithin(horizon) ==
    /\ result = NoResult
    /\ now < horizon
    /\ now' = now + 1
    /\ UNCHANGED <<users, tokens, pc, local, result, redeemed, outbox, establishments>>

Tick == TickWithin(MaxTime)

(* --------------------------- specifications ---------------------------- *)

\* the steps a recovery request in flight takes after its first
Continue(p) ==
    \/ ForgotPasswordInvalidate(p)
    \/ ForgotPasswordCreate(p)
    \/ ForgotPasswordDispatch(p)
    \/ ResetPasswordFindUser(p)
    \/ ResetPasswordUpdate(p)
    \/ ResetPasswordMarkUsed(p)
    \/ ResetPasswordInvalidate(p)

\* the steps a Login in flight takes after its first
LoginContinue(p) ==
    \/ LoginFailed(p)
    \/ LoginSucceeded(p)

StoreStep ==
    \E tokenID \in Issuable :
        \/ StoreInvalidateToken(tokenID)
        \/ StoreMarkTokenAsUsed(tokenID)
        \/ StoreIncrementFailedAttempts(tokenID)

\* a recovery request arrives
RecoveryCall(p) ==
    \/ ForgotPasswordEmail(p)
    \/ ForgotPasswordSMS(p)
    \/ ForgotPasswordWhatsApp(p)
    \/ ValidateResetToken(p)
    \/ ResetPassword(p)

\* recovery requests are served one at a time, each running to completion
SeqNext ==
    \/ RecoveryCall("p1")
    \/ Continue("p1")
    \/ Respond
    \/ Tick

SeqSpec == Init /\ [][SeqNext]_vars

\* logins and the recovery by e-mail of u1, served one at a time
LoginNext ==
    \/ \E email \in {"u1", NoUser}, password \in Passwords : LoginCall("p1", email, password)
    \/ ForgotPasswordEmailCall("p1", "u1")
    \/ ResetPassword("p1")
    \/ Continue("p1")
    \/ LoginContinue("p1")
    \/ Respond
    \/ Tick

LoginSpec == Init /\ [][LoginNext]_vars

\* the recovery of u1 by e-mail, the requests served concurrently with their
\* repository calls interleaved
Next ==
    \/ \E p \in Procs : ForgotPasswordEmailCall(p, "u1")
    \/ \E p \in Procs : ResetPassword(p)
    \/ \E p \in Procs : Continue(p)
    \/ Respond
    \/ Tick

Spec == Init /\ [][Next]_vars

\* the operations of the token repository called directly, between forgot-password
\* requests of u1 that are served one at a time
StoreNext ==
    \/ ForgotPasswordEmailCall("p1", "u1")
    \/ ForgotPasswordSMSCall("p1", "u1")
    \/ ValidateResetToken("p1")
    \/ ForgotPasswordInvalidate("p1")
    \/ ForgotPasswordCreate("p1")
    \/ ForgotPasswordDispatch("p1")
    \/ StoreStep
    \/ Respond
    \/ Tick

StoreSpec == Init /\ [][StoreNext]_vars

\* logins and refreshes of users whose status is changed between the requests
AuthNext ==
    \/ Login("p1")
    \/ LoginContinue("p1")
    \/ RefreshToken("p1")
    \/ \E id \in Users, status \in UserStatus : UserRepoUpdate(id, status)
    \/ Respond
    \/ Tick

AuthSpec == Init /\ [][AuthNext]_vars

\* the credential issuer alone: pairs are issued and credentials verified
CredNext ==
    \/ IssuePair("p1")
    \/ VerifyAccess("p1")
    \/ VerifyRefresh("p1")
    \/ Respond
    \/ Tick

CredSpec == Init /\ [][CredNext]_vars

\* the same, where a request in flight takes its next step and a result is
\* collected: the service does not stop in the middle of an operation
LoginFairSpec ==
    LoginSpec /\ WF_vars(Continue("p1")) /\ WF_vars(LoginContinue("p1")) /\ WF_vars(Respond)

\* the operations on the identity of u1, one request at a time, while u1 is
\* deleted by u2 at any moment, also in the middle of a request
DeleteNext ==
    \/ LoginCall("p1", "u1", PwInitial)
    \/ LoginContinue("p1")
    \/ RefreshTokenCall("p1", RefreshCredential("u1", UserRoleClient, 3))
    \/ RequireAuthCall("p1", [prefix |-> "Bearer ", rest |-> <<AccessCredential("u1", 3)>>])
    \/ ForgotPasswordEmailCall("p1", "u1")
    \/ ForgotPasswordSMSCall("p1", "u1")
    \/ ForgotPasswordWhatsAppCall("p1", "u1")
    \/ \E secret \in Issuable : ResetPasswordCall("p1", secret, PwStrong, PwStrong)
    \/ Continue("p1")
    \/ Delete("u1", "u2")
    \/ Respond
    \/ Tick

DeleteSpec == Init /\ [][DeleteNext]_vars

\* requests with credentials issued to u1 as a Client, while the role and the
\* status of u1 change
RoleChangeNext ==
    \/ \E guard \in RoleGuards :
          GuardedCall("p1", [prefix |-> "Bearer ", rest |-> <<AccessCredential("u1", 3)>>],
                      guard)
    \/ RefreshTokenCall("p1", RefreshCredential("u1", UserRoleClient, 3))
    \/ \E role \in UserRole : UserRepoUpdateRole("u1", role)
    \/ \E status \in UserStatus : UserRepoUpdate("u1", status)
    \/ Respond
    \/ Tick

RoleChangeSpec == Init /\ [][RoleChangeNext]_vars

\* logins of u1, two of them at a time
LoginRaceNext ==
    \/ \E p \in Procs, password \in {PwInitial, PwStrong} : LoginCall(p, "u1", password)
    \/ \E p \in Procs : LoginContinue(p)
    \/ Respond

LoginRaceSpec == Init /\ [][LoginRaceNext]_vars

\* verification and renewal of session credentials, while recovery tokens are
\* created for u1 and its status changes
SessionNext ==
    \/ VerifyAccess("p1")
    \/ VerifyRefresh("p1")
    \/ \E tokenString \in AccessInputs : GetUserFromTokenCall("p1", tokenString)
    \/ RefreshToken("p1")
    \/ ForgotPasswordEmailCall("p1", "u1")
    \/ ForgotPasswordInvalidate("p1")
    \/ ForgotPasswordCreate("p1")
    \/ ForgotPasswordDispatch("p1")
    \/ \E status \in UserStatus : UserRepoUpdate("u1", status)
    \/ Respond
    \/ Tick

SessionSpec == Init /\ [][SessionNext]_vars

\* requests to protected routes, while the status and the role of u1 change
GuardNext ==
    \/ \E header \in AuthorizationHeaders : RequireAuthCall("p1", header)
    \/ \E header \in AuthorizationHeaders, guard \in RoleGuards :
          GuardedCall("p1", header, guard)
    \/ \E guard \in RoleGuards : UnauthenticatedCall("p1", guard)
    \/ \E status \in UserStatus : UserRepoUpdate("u1", status)
    \/ \E role \in UserRole : UserRepoUpdateRole("u1", role)
    \/ Respond
    \/ Tick

GuardSpec == Init /\ [][GuardNext]_vars

\* registrations, two of them at a time
RegisterNext ==
    \/ \E p \in Procs : Register(p)
    \/ \E p \in Procs : RegisterContinue(p)
    \/ Respond

RegisterSpec == Init /\ [][RegisterNext]_vars

\* registrations, served one at a time
RegisterSeqNext ==
    \/ Register("p1")
    \/ RegisterContinue("p1")
    \/ Respond

RegisterSeqSpec == Init /\ [][RegisterSeqNext]_vars

\* forgot-password requests of u1 on the three channels, served one at a time,
\* over a table and a time long enough for the rate limit to be met
RateNext ==
    \/ \E dbOk \in BOOLEAN : ForgotPasswordEmailStart("p1", "u1", dbOk, RateTokens)
    \/ \E dbOk \in BOOLEAN : ForgotPasswordSMSStart("p1", "u1", dbOk, RateTokens)
    \/ \E dbOk \in BOOLEAN : ForgotPasswordWhatsAppStart("p1", "u1", dbOk, RateTokens)
    \/ ForgotPasswordInvalidate("p1")
    \/ ForgotPasswordCreate("p1")
    \/ ForgotPasswordDispatch("p1")
    \/ Respond
    \/ TickWithin(RateTime)

RateSpec == Init /\ [][RateNext]_vars

(* ------------------------------ properties ----------------------------- *)

TypeOK ==
    /\ now \in 0..MaxTime
    /\ Cardinality(TokenIds) <= MaxTokens
    /\ \A i \in TokenIds : tokens[i].status \in TokenStatus

Terminal == {TokenStatusUsed, TokenStatusExpired, TokenStatusRevoked}

\* the Active tokens of a user on a channel
ActiveOf(u, ch) ==
    {s \in TokenIds : /\ tokens[s].userId = u
                      /\ tokens[s].channel = ch
                      /\ tokens[s].status = TokenStatusActive}

\* the user has an Active token
HasActive(u) == \E ch \in TokenChannel : ActiveOf(u, ch) # {}

\* C1: a token whose status is Used, Expired or Revoked never changes status
\* again; the only transitions are Active->Used, Active->Expired, Active->Revoked.
C1_TerminalIsFinal ==
    [][\A s \in Issuable :
          tokens[s].status \in Terminal => tokens'[s].status = tokens[s].status]_vars

\* C2: with the requests served one at a time, every user has at most one Active
\* token per channel, and a forgot-password request creates its token only after
\* all Active tokens of the user have been set to Expired.
C2_OneActivePerChannel ==
    /\ \A u \in Users, ch \in TokenChannel : Cardinality(ActiveOf(u, ch)) <= 1
    /\ \A p \in Procs : pc[p] = "fp_create" => ~HasActive(local[p].u)

\* a second token of a user and channel has been created: the earlier one is
\* Expired, the new one Active
C2_Witness ==
    \E s, t \in TokenIds :
        /\ s # t
        /\ tokens[s].userId = tokens[t].userId
        /\ tokens[s].channel = tokens[t].channel
        /\ tokens[s].status = TokenStatusExpired
        /\ tokens[t].status = TokenStatusActive
        /\ now < tokens[s].expiresAt

\* C3: also with two forgot-password requests of a user served concurrently, no
\* two different tokens of one user and channel are Active together.
C3_OneActiveConcurrent ==
    \A s, t \in TokenIds :
        (/\ tokens[s].userId = tokens[t].userId
         /\ tokens[s].channel = tokens[t].channel
         /\ tokens[s].status = TokenStatusActive
         /\ tokens[t].status = TokenStatusActive) => s = t

\* C4: every wrong-password Login whose increment is stored returns InvalidLogin
\* and raises the counter by one, and a Login of a user whose counter has reached
\* 5 returns UserBlocked, whatever the password, without comparing the password
\* and without changing a user.
C4_BlockedAfterFive ==
    [][/\ (LoginFailed("p1") /\ users' # users) =>
            /\ result'.err = "InvalidLogin"
            /\ users' = [users EXCEPT ![local["p1"].u].failedLoginCount = @ + 1]
       /\ \A email \in Identifiers, password \in Passwords :
            (/\ LoginCall("p1", email, password)
             /\ FindByEmail(email) # NoUser
             /\ users[FindByEmail(email)].failedLoginCount >= 5) =>
                /\ result'.op = "Login"
                /\ result'.err = "UserBlocked"
                /\ ~result'.pwChecked
                /\ users' = users]_vars

\* the sixth Login after five wrong passwords has returned UserBlocked
C4_Witness ==
    /\ result.op = "Login"
    /\ result.err = "UserBlocked"
    /\ users[result.u].failedLoginCount = 5

\* C5: for every secret at most one ResetPassword call succeeds.
C5_SingleUse == \A s \in Issuable : redeemed[s] <= 1

\* C6: when ResetPassword returns success, the hash of the token's owner verifies
\* the new password, the owner's failed-login count is 0, the token is Used and
\* the owner has no Active token.
C6_ResetPostcondition ==
    [][(ResetPasswordInvalidate("p1") /\ result'.err = "ok") =>
          LET tok == local["p1"].tok
              u == tokens[tok].userId
          IN  /\ result'.op = "ResetPassword"
              /\ VerifyPassword(users'[u].passwordHash, local["p1"].pw)
              /\ users'[u].failedLoginCount = 0
              /\ tokens'[tok].status = TokenStatusUsed
              /\ \A s \in Issuable :
                    tokens'[s].userId = u => tokens'[s].status # TokenStatusActive]_vars

\* ResetPassword has returned success for a user; the new password is in place and
\* the token is Used
C6_Witness ==
    /\ result.op = "ResetPassword"
    /\ result.err = "ok"
    /\ tokens[result.tok].status = TokenStatusUsed
    /\ VerifyPassword(users[result.u].passwordHash, PwStrong)
    /\ users[result.u].failedLoginCount = 0

\* C7: ResetPassword with a valid token and a password that is too weak, or else
\* a confirmation that differs, returns PasswordTooWeak, or else
\* PasswordConfirmation, and changes no token and no user, so that the token is
\* still valid afterwards.
C7_RejectedPasswordKeepsToken ==
    [][\A secret \in Issuable, password \in Passwords :
        \A confirmPassword \in Confirmations(password) :
          (/\ secret \in TokenIds
           /\ IsValid(tokens[secret])
           /\ ValidatePasswordStrength(password) # "ok" \/ password # confirmPassword
           /\ ResetPasswordCall("p1", secret, password, confirmPassword)) =>
              /\ result'.op = "ResetPassword"
              /\ result'.err = IF \/ password.len < 8
                                  \/ password.len > 72
                                  \/ Cardinality(password.classes) < 3
                               THEN "PasswordTooWeak" ELSE "PasswordConfirmation"
              /\ tokens' = tokens
              /\ users' = users
              /\ tokens'[secret].status = TokenStatusActive
              /\ now' < tokens'[secret].expiresAt]_vars

\* ResetPassword has returned PasswordTooWeak for a token that is still valid
C7_Witness ==
    /\ result.op = "ResetPassword"
    /\ result.err = "PasswordTooWeak"
    /\ result.tok \in TokenIds
    /\ tokens[result.tok].status = TokenStatusActive
    /\ now < tokens[result.tok].expiresAt

\* C8: ResetPassword with a strong, matching password and a secret that is
\* unknown, or whose token is Used, Expired, Revoked or at or past its expiry,
\* returns InvalidToken and changes no user.
C8_BadTokenRejected ==
    [][\A secret \in Secrets, password \in {PwInitial, PwStrong} :
          (/\ \/ secret \notin TokenIds
              \/ tokens[secret].status # TokenStatusActive
              \/ now >= tokens[secret].expiresAt
           /\ ResetPasswordCall("p1", secret, password, password)) =>
              /\ result'.op = "ResetPassword"
              /\ result'.err = "InvalidToken"
              /\ users' = users]_vars

\* ResetPassword has returned InvalidToken for a token that is Active and at the
\* instant of its expiry
C8_Witness ==
    /\ result.op = "ResetPassword"
    /\ result.err = "InvalidToken"
    /\ result.tok \in TokenIds
    /\ tokens[result.tok].status = TokenStatusActive
    /\ now = tokens[result.tok].expiresAt

\* C9: ValidateResetToken succeeds exactly if a token with the secret exists, is
\* Active and now is before its expiry, and fails with InvalidToken otherwise; it
\* changes no user, and no token but the one looked up, whose status alone goes
\* from Active to Expired, and only when now is past its expiry.
C9_ValidateIsPure ==
    [][\A secret \in Secrets :
          ValidateResetTokenCall("p1", secret) =>
              /\ result'.op = "ValidateResetToken"
              /\ result'.err \in {"ok", "InvalidToken"}
              /\ result'.err = "ok" <=>
                    /\ secret \in TokenIds
                    /\ tokens[secret].status = TokenStatusActive
                    /\ now < tokens[secret].expiresAt
              /\ users' = users
              /\ \A s \in Issuable :
                    tokens'[s] # tokens[s] =>
                        /\ s = secret
                        /\ tokens[s].status = TokenStatusActive
                        /\ now > tokens[s].expiresAt
                        /\ tokens'[s] = [tokens[s] EXCEPT !.status = TokenStatusExpired]]_vars

\* ValidateResetToken has returned InvalidToken for an Active token at the instant
\* of its expiry, which it has left Active
C9_Witness ==
    /\ result.op = "ValidateResetToken"
    /\ result.err = "InvalidToken"
    /\ result.tok \in TokenIds
    /\ tokens[result.tok].status = TokenStatusActive
    /\ now = tokens[result.tok].expiresAt

\* C10: a token whose failed-attempt counter is 5 or more has status Revoked.
C10_FiveAttemptsRevoked ==
    \A s \in TokenIds :
        tokens[s].failedAttempts >= 5 => tokens[s].status = TokenStatusRevoked

\* the tokens of user u created within the last hour
CreatedInLastHour(u) ==
    {s \in TokenIds : tokens[s].userId = u /\ tokens[s].createdAt > now - ResetTokenRateWindow}

\* a forgot-password request on one of the three channels, its count succeeding
ForgotPasswordOn(channel, p, id) ==
    IF channel = TokenChannelEmail THEN ForgotPasswordEmailStart(p, id, TRUE, RateTokens)
    ELSE IF channel = TokenChannelSMS THEN ForgotPasswordSMSStart(p, id, TRUE, RateTokens)
    ELSE ForgotPasswordWhatsAppStart(p, id, TRUE, RateTokens)

\* C11: on each channel a forgot-password request of a user with 3 tokens created
\* within the last hour returns TooManyRequests, creates no token, changes no token
\* and dispatches nothing; and no user has more than 3 tokens created within an
\* hour.
C11_RateLimited ==
    [][/\ \A channel \in TokenChannel :
            (/\ Cardinality(CreatedInLastHour("u1")) >= 3
             /\ ForgotPasswordOn(channel, "p1", "u1")) =>
                /\ result'.err = "TooManyRequests"
                /\ tokens' = tokens
                /\ outbox' = outbox
       /\ \A u \in Users : Cardinality(CreatedInLastHour(u)') <= 3]_vars

\* C12: a request at its dispatch has its token in the table, Active, on its own
\* channel and not yet dispatched; every secret is dispatched at most once, by the
\* service of its token's channel; a failed dispatch returns the delivery error
\* and changes no token, and an Active token before its expiry is accepted by
\* ResetPassword whatever became of its dispatch.
C12_PersistedBeforeDispatch ==
    [][/\ \A p \in Procs : pc[p] = "fp_dispatch" =>
            /\ local[p].tok \in TokenIds
            /\ tokens[local[p].tok].status = TokenStatusActive
            /\ tokens[local[p].tok].channel = local[p].ch
            /\ tokens[local[p].tok].userId = local[p].u
            /\ outbox[local[p].tok] = <<>>
       /\ \A s \in Issuable :
            /\ Len(outbox'[s]) <= 1
            /\ Len(outbox'[s]) = 1 =>
                  /\ s \in TokenIds
                  /\ outbox'[s][1].service =
                        (IF tokens[s].channel = "EMAIL" THEN "EmailService"
                         ELSE IF tokens[s].channel = "SMS" THEN "SMSService"
                         ELSE "WhatsAppService")
       /\ ForgotPasswordDispatch("p1") =>
            /\ Len(outbox'[local["p1"].tok]) = 1
            /\ result'.err \in {"ok", "DeliveryError"}
            /\ tokens' = tokens
            /\ tokens'[local["p1"].tok].status = TokenStatusActive
       /\ \A secret \in Issuable :
            (/\ tokens[secret].status = TokenStatusActive
             /\ now < tokens[secret].expiresAt
             /\ ResetPasswordCall("p1", secret, PwStrong, PwStrong)) =>
                /\ pc'["p1"] = "rp_user"
                /\ local'["p1"].tok = secret]_vars

\* a dispatch has failed: the operation has returned the delivery error, and its
\* token is in the table, Active and before its expiry, the one call of the
\* service recorded
C12_Witness ==
    /\ result.err = "DeliveryError"
    /\ result.tok \in TokenIds
    /\ tokens[result.tok].status = TokenStatusActive
    /\ now < tokens[result.tok].expiresAt
    /\ Len(outbox[result.tok]) = 1

ForgotPasswordOps == {"ForgotPasswordEmail", "ForgotPasswordSMS", "ForgotPasswordWhatsApp"}

\* C13: a forgot-password operation whose count, invalidate-all or create fails
\* returns the storage error; it returns success only from its dispatch, the token
\* created and the service called; and after a failed invalidate-all it creates
\* no token.
C13_StorageErrorsPropagate ==
    [][/\ \A id \in Users :
            /\ (ForgotPasswordEmailStart("p1", id, FALSE, MaxTokens)
                  /\ FindByEmail(id) # NoUser) => result'.err = "StorageError"
            /\ (ForgotPasswordSMSStart("p1", id, FALSE, MaxTokens)
                  /\ FindByPhone(id) # NoUser) => result'.err = "StorageError"
            /\ (ForgotPasswordWhatsAppStart("p1", id, FALSE, MaxTokens)
                  /\ FindByPhone(id) # NoUser) => result'.err = "StorageError"
       /\ (pc["p1"] \in {"fp_invalidate", "fp_create"} /\ pc'["p1"] = "idle") =>
            /\ result'.err = "StorageError"
            /\ TokenIds' = TokenIds
       /\ (result = NoResult /\ result'.op \in ForgotPasswordOps /\ result'.err = "ok") =>
            /\ pc["p1"] = "fp_dispatch"
            /\ local["p1"].tok \in TokenIds
            /\ Len(outbox'[local["p1"].tok]) = 1]_vars

\* C14: Login with an e-mail address that no user record carries returns
\* InvalidLogin, the error a wrong password for an existing user gets, and leaves
\* every user record as it was.
C14_UnknownEmailGeneric ==
    [][/\ \A email \in Identifiers, password \in Passwords :
            (/\ LoginCall("p1", email, password)
             /\ \A u \in Users : users[u].email # email) =>
                /\ result'.op = "Login"
                /\ result'.err = "InvalidLogin"
                /\ pc'["p1"] = "idle"
                /\ users' = users
       /\ LoginFailed("p1") =>
            /\ result'.op = "Login"
            /\ result'.err = "InvalidLogin"]_vars

\* Login has answered InvalidLogin without resolving a user while every account
\* is Active, so the address was nobody's
C14_Witness ==
    /\ result.op = "Login"
    /\ result.err = "InvalidLogin"
    /\ result.u = NoUser
    /\ ~result.pwChecked
    /\ \A u \in Users : users[u].status = UserStatusActive

\* C15: Login with the e-mail address of a user whose status is Blocked returns
\* UserBlocked, and of a user whose status is Inactive or Pending returns
\* UserInactive, whatever the password, and leaves every user record as it was.
C15_StatusRejected ==
    [][\A email \in Identifiers, password \in Passwords : \A u \in Users :
          (/\ LoginCall("p1", email, password)
           /\ users[u].email = email
           /\ users[u].status # UserStatusActive) =>
              /\ result'.op = "Login"
              /\ result'.err = IF users[u].status = UserStatusBlocked
                                THEN "UserBlocked" ELSE "UserInactive"
              /\ users' = users]_vars

\* the pair of credentials verifies, each as its own type, for the user and role
PairVerifiesFor(accessToken, refreshToken, userID, role) ==
    /\ ValidateAccessToken(accessToken).err = "ok"
    /\ ValidateAccessToken(accessToken).claims.userId = userID
    /\ ValidateAccessToken(accessToken).claims.role = role
    /\ ValidateRefreshToken(refreshToken).err = "ok"
    /\ ValidateRefreshToken(refreshToken).claims.userId = userID
    /\ ValidateRefreshToken(refreshToken).claims.role = role

\* C16: when Login has found the password of an Active user below the attempt
\* limit correct, it returns success, the failed-login count of the user is 0, the
\* last login is the current time, and the access and refresh credentials
\* returned verify as access and as refresh for the user's id and role.
C16_LoginSucceeds ==
    [][LoginSucceeded("p1") =>
          LET u == local["p1"].u
          IN  /\ result'.op = "Login"
              /\ result'.err = "ok"
              /\ users'[u].failedLoginCount = 0
              /\ users'[u].lastLoginAt = <<now>>
              /\ PairVerifiesFor(result'.accessToken, result'.refreshToken,
                                 u, users[u].role)]_vars

\* C20: RefreshToken fails for every credential that does not verify as a refresh
\* credential; for one that does, it fails with UserInactive if the user is not
\* Active, and otherwise returns success with a pair that verifies for the
\* user's id and role.
C20_RefreshRotates ==
    [][\A refreshToken \in RefreshInputs :
          RefreshTokenCall("p1", refreshToken) =>
             LET validated == ValidateRefreshToken(refreshToken)
                 u == validated.claims.userId
             IN  /\ result'.op = "RefreshToken"
                 /\ validated.err # "ok" => result'.err # "ok"
                 /\ (validated.err = "ok" /\ users[u].status # UserStatusActive) =>
                       result'.err = "UserInactive"
                 /\ (validated.err = "ok" /\ users[u].status = UserStatusActive) =>
                       /\ result'.err = "ok"
                       /\ PairVerifiesFor(result'.accessToken, result'.refreshToken,
                                          u, users[u].role)]_vars

\* C17: IssuePair succeeds for every user id and role, the access credential
\* verifies as access and the refresh credential as refresh with that id and role,
\* and each of the two fails the other verification with InvalidToken.
C17_PairVerifiesByType ==
    [][\A userID \in Users, role \in UserRole :
          IssuePairCall("p1", userID, role) =>
             /\ result'.op = "IssuePair"
             /\ result'.err = "ok"
             /\ PairVerifiesFor(result'.accessToken, result'.refreshToken, userID, role)
             /\ ValidateAccessToken(result'.refreshToken).err = "utils.ErrInvalidToken"
             /\ ValidateRefreshToken(result'.accessToken).err = "utils.ErrInvalidToken"]_vars

\* the credential carries an HMAC signature made with the secret
CorrectlySigned(tokenString, secret) ==
    /\ tokenString.wellFormed
    /\ tokenString.alg = "HS256"
    /\ tokenString.key = secret

\* C18: a credential signed with the right secret and of the right type fails
\* VerifyAccess, or VerifyRefresh, with ExpiredToken once the time is past its
\* expiry, and no credential fails with ExpiredToken while the time is not past
\* its expiry.
C18_ExpiredIsExpired ==
    [][\A tokenString \in Credentials :
          /\ VerifyAccessCall("p1", tokenString) =>
                /\ result'.op = "VerifyAccess"
                /\ (/\ CorrectlySigned(tokenString, AccessSecret)
                     /\ tokenString.claims.type = "access"
                     /\ now > tokenString.claims.exp) => result'.err = "ExpiredToken"
                /\ now <= tokenString.claims.exp => result'.err # "ExpiredToken"
          /\ VerifyRefreshCall("p1", tokenString) =>
                /\ result'.op = "VerifyRefresh"
                /\ (/\ CorrectlySigned(tokenString, RefreshSecret)
                     /\ tokenString.claims.type = "refresh"
                     /\ now > tokenString.claims.exp) => result'.err = "ExpiredToken"
                /\ now <= tokenString.claims.exp => result'.err # "ExpiredToken"]_vars

\* VerifyRefresh has answered ExpiredToken for a refresh credential signed with
\* the refresh secret, after its expiry
C18_Witness ==
    /\ result.op = "VerifyRefresh"
    /\ result.err = "ExpiredToken"
    /\ CorrectlySigned(result.presented, RefreshSecret)
    /\ result.presented.claims.type = "refresh"
    /\ now > result.presented.claims.exp

\* the credential is neither past its expiry nor issued in the future
InForce(tokenString) ==
    /\ now <= tokenString.claims.exp
    /\ now >= tokenString.claims.iat

\* C19: VerifyAccess and VerifyRefresh answer InvalidToken for every credential in
\* force that does not parse, or whose signature was not made with the expected
\* secret, or whose type is not the expected one, or whose issuer is not the
\* configured one.
C19_RejectedAsInvalid ==
    [][\A tokenString \in Credentials :
          /\ (/\ VerifyAccessCall("p1", tokenString)
               /\ (~tokenString.wellFormed \/ InForce(tokenString))
               /\ \/ ~CorrectlySigned(tokenString, AccessSecret)
                  \/ tokenString.claims.type # "access"
                  \/ tokenString.claims.issuer # Issuer) =>
                      result'.err = "utils.ErrInvalidToken"
          /\ (/\ VerifyRefreshCall("p1", tokenString)
               /\ (~tokenString.wellFormed \/ InForce(tokenString))
               /\ \/ ~CorrectlySigned(tokenString, RefreshSecret)
                  \/ tokenString.claims.type # "refresh"
                  \/ tokenString.claims.issuer # Issuer) =>
                      result'.err = "utils.ErrInvalidToken"]_vars

\* the step creates no user and no establishment
CreatesNothing == users' = users /\ establishments' = establishments

\* C21: Register with a password that is too weak answers PasswordTooWeak, and
\* with a confirmation that differs PasswordConfirmation, and has written nothing;
\* the row a Register inserts has status Active; and unless the storage fails, a
\* Register whose e-mail address, or non-empty phone number, a row of the table
\* already has answers UserExists and creates nothing.
C21_RegisterValidatesFirst ==
    [][LET p == "p1" IN
         /\ \A req \in RegisterRequest :
               RegisterCall(p, req) =>
                  /\ CreatesNothing
                  /\ ValidatePasswordStrength(req.password) # "ok" =>
                        /\ result'.op = "Register"
                        /\ result'.err = "PasswordTooWeak"
                  /\ (/\ ValidatePasswordStrength(req.password) = "ok"
                       /\ req.password # req.confirmPassword) =>
                        /\ result'.op = "Register"
                        /\ result'.err = "PasswordConfirmation"
                  /\ (/\ ValidatePasswordStrength(req.password) = "ok"
                       /\ req.password = req.confirmPassword
                       /\ \E u \in DOMAIN users : users[u].email = req.email) =>
                        /\ result'.op = "Register"
                        /\ result'.err \in {"UserExists", "StorageError"}
         /\ (/\ RegisterCountPhone(p)
              /\ local[p].snap.phone # ""
              /\ \E u \in DOMAIN users : users[u].phone = local[p].snap.phone) =>
                 /\ CreatesNothing
                 /\ result'.op = "Register"
                 /\ result'.err \in {"UserExists", "StorageError"}
         /\ (RegisterInsert(p) /\ users' # users) =>
                 /\ DOMAIN users' = DOMAIN users \cup {NextUserId}
                 /\ users'[NextUserId].status = UserStatusActive
                 /\ users'[NextUserId].email = local[p].snap.email
                 /\ \A u \in DOMAIN users : users'[u] = users[u]
         /\ (RegisterContinue(p) /\ result'.op = "Register" /\ result'.err = "ok") =>
                 /\ result'.u \in DOMAIN users'
                 /\ users'[result'.u].status = UserStatusActive]_vars

\* a Register has been answered UserExists after another Register had created a
\* user
C21_Witness ==
    /\ result.op = "Register"
    /\ result.err = "UserExists"
    /\ Registered # {}
    /\ \A u \in Registered : users[u].status = UserStatusActive

\* C22: no two rows of the users table have the same e-mail address, and no two
\* have the same non-empty phone number, also while registrations run
\* concurrently.
C22_UniqueEmailAndPhone ==
    \A u, v \in DOMAIN users :
        u # v =>
            /\ users[u].email # users[v].email
            /\ users[u].phone # "" => users[u].phone # users[v].phone

\* the rows of the estabilishments table that belong to the user
EstablishmentsOf(u) ==
    {i \in 1..Len(establishments) : establishments[i].userId = u}

\* C23: once its Register has ended, a user that Register created with role
\* Professional has exactly one establishment, with the user's name and timezone,
\* and a user created with another role has none.
C23_ProfessionalHasEstablishment ==
    \A u \in Registered :
        (\A p \in Procs : ~(pc[p] = "reg_establishment" /\ local[p].u = u)) =>
            IF users[u].role = UserRoleProfessional
            THEN /\ Cardinality(EstablishmentsOf(u)) = 1
                 /\ \A i \in EstablishmentsOf(u) :
                       /\ establishments[i].bussinessName = users[u].name
                       /\ establishments[i].timezone = users[u].timezone
            ELSE EstablishmentsOf(u) = {}

\* C24: RequireAuth puts every request into exactly one outcome: 401 UNAUTHORIZED
\* when the header is absent or is not "Bearer " followed by a character, 401
\* INVALID_TOKEN when the token is invalid or expired, 403 USER_INACTIVE when
\* the token is a valid access token whose user exists with a status other than
\* Active, and otherwise the request proceeds with user, id and role in the
\* context; an aborted request has no context value
C24_RequireAuthClassifies ==
    [][\A header \in AuthorizationHeaders :
          RequireAuthCall("p1", header) =>
            LET ctx == result'.ctx
                bearer == header.prefix = "Bearer " /\ Len(header.rest) > 0
                validated == ValidateAccessToken(header.rest[1])
                id == validated.claims.userId
                refused(status, code) ==
                    /\ ctx.aborted /\ ctx.status = status /\ ctx.code = code
                    /\ ctx.keys = NoKeys
            IN  IF ~bearer THEN refused(401, "UNAUTHORIZED")
                ELSE IF validated.err # "ok" THEN refused(401, "INVALID_TOKEN")
                ELSE IF id \notin DOMAIN users THEN refused(401, "INVALID_TOKEN")
                ELSE IF users[id].status # UserStatusActive
                     THEN refused(403, "USER_INACTIVE")
                ELSE /\ ~ctx.aborted
                     /\ ctx.keys = [exists |-> TRUE, user |-> users[id], userId |-> id,
                                     userRole |-> users[id].role]]_vars

\* C25: a request passes RequireRole only with a context that RequireAuth has
\* populated and a role of the set: without the context it is aborted with 401
\* UNAUTHORIZED, with a role outside the set with 403 FORBIDDEN; behind
\* RequireAuth, RequireClient is passed only by Active Clients,
\* RequireProfessional only by Professional, Staff or Admin, RequireAdmin only
\* by Admin and RequireOwnerOrAdmin only by Professional or Admin
C25_RequireRoleAdmitsOnlySet ==
    [][\A guard \in RoleGuards :
          LET ctx == result'.ctx
              admitted ==
                  CASE guard = "RequireClient" -> {"CLIENT"}
                    [] guard = "RequireProfessional" -> {"PROFESSIONAL", "STAFF", "ADMIN"}
                    [] guard = "RequireAdmin" -> {"ADMIN"}
                    [] guard = "RequireOwnerOrAdmin" -> {"PROFESSIONAL", "ADMIN"}
          IN  /\ UnauthenticatedCall("p1", guard) =>
                    ctx.aborted /\ ctx.status = 401 /\ ctx.code = "UNAUTHORIZED"
              /\ \A header \in AuthorizationHeaders :
                    GuardedCall("p1", header, guard) =>
                      /\ ~ctx.aborted =>
                            /\ ctx.keys.exists
                            /\ ctx.keys.userId \in DOMAIN users
                            /\ users[ctx.keys.userId].status = UserStatusActive
                            /\ users[ctx.keys.userId].role \in admitted
                      /\ ctx.keys.exists /\ ctx.keys.user.role \notin admitted =>
                            ctx.aborted /\ ctx.status = 403 /\ ctx.code = "FORBIDDEN"]_vars

\* a member of the staff has passed RequireAuth and RequireProfessional
C25_Witness ==
    /\ result.op = "RequireProfessional"
    /\ ~result.ctx.aborted
    /\ result.ctx.keys.userRole = UserRoleStaff

\* C26: every token a forgot-password operation creates is Active, has no failed
\* attempt, carries the channel of the operation and expires 15 minutes after
\* its creation for Email and 5 minutes after it for SMS and WhatsApp (three
\* units and one unit of five minutes); its secret is a random string of 32
\* characters for Email and a numeric code of 6 digits for SMS and WhatsApp
C26_TokenCreatedPerChannel ==
    [][ForgotPasswordCreate("p1") =>
          \A s \in Issuable :
              tokens'[s] # tokens[s] =>
                LET row == tokens'[s]
                    op == OpOf(row.channel)
                IN  /\ tokens[s] = NoToken
                    /\ row.token = s
                    /\ row.userId = local["p1"].u
                    /\ row.status = "ACTIVE"
                    /\ row.failedAttempts = 0
                    /\ row.createdAt = now
                    /\ row.channel \in {"EMAIL", "SMS", "WHATSAPP"}
                    /\ row.channel = local["p1"].ch
                    /\ pc'["p1"] = "fp_dispatch" /\ FpResult("p1", "ok").op = op
                    /\ IF row.channel = "EMAIL"
                       THEN /\ row.expiresAt = row.createdAt + 3
                            /\ s.alphabet = "urlsafe" /\ s.len = 32
                       ELSE /\ row.expiresAt = row.createdAt + 1
                            /\ s.alphabet = "digits" /\ s.len = 6]_vars

\* a token of the WhatsApp channel has been created by ForgotPasswordWhatsApp and
\* is about to be dispatched
C26_Witness ==
    /\ pc["p1"] = "fp_dispatch"
    /\ local["p1"].ch = TokenChannelWhatsapp
    /\ tokens[local["p1"].tok].channel = TokenChannelWhatsapp
    /\ tokens[local["p1"].tok].createdAt = now

\* C27: VerifyAccess, VerifyRefresh, GetUserFromToken and RefreshToken change
\* no user record and no recovery token, whether they succeed or fail, and so
\* RefreshToken accepts a refresh credential that is in force for an Active
\* user every time it is presented, also after it has been used
C27_SessionSideEffectFree ==
    [][/\ (\/ VerifyAccess("p1") \/ VerifyRefresh("p1") \/ RefreshToken("p1")
           \/ \E tokenString \in AccessInputs : GetUserFromTokenCall("p1", tokenString))
          => users' = users /\ tokens' = tokens
       /\ \A refreshToken \in RefreshInputs :
             /\ RefreshTokenCall("p1", refreshToken)
             /\ ValidateRefreshToken(refreshToken).err = "ok"
             /\ refreshToken.claims.userId \in DOMAIN users
             /\ users[refreshToken.claims.userId].status = UserStatusActive
             => result'.err = "ok"]_vars

\* C28: for a refresh token that is invalid, expired or of the wrong type,
\* AuthService.RefreshToken returns the InvalidToken error of the services, and
\* the endpoint answers 401 INVALID_TOKEN, never 500 SERVER_ERROR
C28_BadRefreshTokenIs401 ==
    [][\A refreshToken \in RefreshInputs :
          RefreshTokenCall("p1", refreshToken)
            /\ ValidateRefreshToken(refreshToken).err # "ok"
          => /\ result'.err = "InvalidToken"
             /\ RefreshTokenResponse(result'.err).status = 401
             /\ RefreshTokenResponse(result'.err).code = "INVALID_TOKEN"]_vars

\* C29: in every reachable state the failed-login count of a user is at most
\* the maximum of 5, so that at most 5 wrong passwords are verified between two
\* resets of the counter, also when several Logins of the same user run at the
\* same time
C29_FailedLoginCountBounded ==
    \A u \in DOMAIN users : users[u].failedLoginCount <= 5

\* the failed logins of the user have reached the maximum
LockedOut(u) == users[u].failedLoginCount >= MaxLoginAttempts
\* a ResetPassword for the user has just returned success
ResetSucceeded(u) ==
    result.op = "ResetPassword" /\ result.err = "ok" /\ result.u = u

\* C30: the lockout does not lapse with time: once the failed-login count of a
\* user has reached the maximum, the passing of time leaves it there and every
\* Login of the user returns UserBlocked until a ResetPassword for the user
\* succeeds; after that ResetPassword the count is 0 and a Login with the new
\* password is not rejected with UserBlocked
C30_LockoutUntilReset ==
    /\ [][/\ Tick => users' = users
          /\ \A password \in Passwords :
                LoginCall("p1", "u1", password) /\ LockedOut("u1")
                  => result'.err = "UserBlocked"
          /\ ResetSucceeded("u1")' /\ ~ResetSucceeded("u1") =>
                /\ users'["u1"].failedLoginCount = 0
                /\ ~LoginBlocked("u1")']_vars
    /\ [](LockedOut("u1") => ([]LockedOut("u1") \/ <>ResetSucceeded("u1")))

\* C31: ResetPassword is all-or-nothing: when it returns an error, also one of
\* the user update, of mark-used or of the last invalidate-all, the password
\* hash and the failed-login count of the user are those of before the call
\* and the redeeming token is still Active, so that the password is never
\* changed while the redeeming token stays Active
C31_ResetAllOrNothing ==
    [][/\ pc["p1"] \in {"rp_update", "rp_mark", "rp_invalidate"}
       /\ pc'["p1"] = "idle"
       /\ result'.err # "ok"
       => LET u == local["p1"].u
          IN  /\ users'[u].passwordHash = local["p1"].snap.passwordHash
              /\ users'[u].failedLoginCount = local["p1"].snap.failedLoginCount
              /\ tokens'[local["p1"].tok].status = TokenStatusActive]_vars

\* C32: soft deletion is permanent: Delete sets the status to Inactive and
\* records when and by whom, and from then on no step makes the user Active
\* again or clears the record of the deletion, also not the user update of a
\* ResetPassword that read the user before the deletion
C32_SoftDeleteIsPermanent ==
    [][/\ Delete("u1", "u2") =>
            /\ users'["u1"].status = "INACTIVE"
            /\ users'["u1"].deletedAt = <<now>>
            /\ users'["u1"].deletedBy = "u2"
       /\ \A u \in DOMAIN users :
            users[u].deletedAt # <<>> =>
              /\ users'[u].status = "INACTIVE"
              /\ users'[u].deletedAt = users[u].deletedAt
              /\ users'[u].deletedBy = users[u].deletedBy]_vars

\* u1 has been deleted while a ResetPassword that read it as Active is about to
\* save the record
C32_Witness ==
    /\ users["u1"].deletedAt # <<>>
    /\ pc["p1"] = "rp_update"
    /\ local["p1"].u = "u1"
    /\ local["p1"].snap.status = UserStatusActive

\* C33: after the deletion of a user every later operation on the identity is
\* rejected and changes nothing: Login with the address and the right password
\* fails, RefreshToken and RequireAuth with credentials issued before the
\* deletion fail, forgot-password creates no token on any channel, and
\* ResetPassword with a token issued before the deletion leaves the password
C33_DeletedIdentityRejected ==
    [][users["u1"].deletedAt # <<>> =>
         /\ users'["u1"].passwordHash = users["u1"].passwordHash
         /\ LoginCall("p1", "u1", PwInitial) =>
               /\ pc'["p1"] = "idle" /\ result'.err = "InvalidLogin"
               /\ users' = users /\ tokens' = tokens
         /\ RefreshTokenCall("p1", RefreshCredential("u1", UserRoleClient, 3)) =>
               /\ result'.err = "UserNotFound"
               /\ result'.accessToken = NoCredential /\ result'.refreshToken = NoCredential
               /\ users' = users /\ tokens' = tokens
         /\ RequireAuthCall("p1", [prefix |-> "Bearer ",
                                   rest |-> <<AccessCredential("u1", 3)>>]) =>
               /\ result'.ctx.aborted /\ result'.ctx.status = 401
               /\ result'.ctx.keys = NoKeys
               /\ users' = users /\ tokens' = tokens
         /\ (\/ ForgotPasswordEmailCall("p1", "u1")
             \/ ForgotPasswordSMSCall("p1", "u1")
             \/ ForgotPasswordWhatsAppCall("p1", "u1")) =>
               /\ pc'["p1"] = "idle"
               /\ result'.err \in {"EmailNotFound", "PhoneNotFound"}
               /\ users' = users /\ tokens' = tokens
         /\ ResetPasswordFindUser("p1") /\ local["p1"].u = "u1" =>
               /\ pc'["p1"] = "idle" /\ result'.err = "UserNotFound"
               /\ users' = users /\ tokens' = tokens]_vars

\* a ResetPassword with a token of u1 that is still Active has been rejected
\* after the deletion of u1
C33_Witness ==
    /\ users["u1"].deletedAt # <<>>
    /\ result.op = "ResetPassword"
    /\ result.err = "UserNotFound"
    /\ result.u = "u1"
    /\ tokens[result.tok].status = TokenStatusActive
    /\ tokens[result.tok].createdAt <= users["u1"].deletedAt[1]

\* C34: a ResetPassword that succeeds changes the password hash and the
\* failed-login count of exactly one user, the owner of the token with the
\* secret, and the status of tokens of that user only; the record and the
\* tokens of every other user stay as they are
C34_ResetTouchesOwnerOnly ==
    [][(\/ ResetPasswordFindUser("p1") \/ ResetPasswordUpdate("p1")
        \/ ResetPasswordMarkUsed("p1") \/ ResetPasswordInvalidate("p1")) =>
          LET owner == tokens[local["p1"].tok].userId
          IN  /\ local["p1"].u = owner
              /\ \A u \in DOMAIN users \ {owner} : users'[u] = users[u]
              /\ users'[owner] = users[owner]
                   \/ users'[owner] = [users[owner] EXCEPT
                          !.passwordHash = HashPassword(local["p1"].pw).hash,
                          !.failedLoginCount = 0]
              /\ \A s \in Issuable :
                    tokens[s].userId # owner => tokens'[s] = tokens[s]]_vars

\* a ResetPassword for one user has succeeded while another user holds an
\* Active token
C34_Witness ==
    /\ result.op = "ResetPassword"
    /\ result.err = "ok"
    /\ tokens[result.tok].status = TokenStatusUsed
    /\ \E s \in TokenIds :
          tokens[s].userId # result.u /\ tokens[s].status = TokenStatusActive

\* C35: authorization follows the current record of the user, not the role in
\* the credential: after the role or the status of the user has changed,
\* RequireAuth and RequireRole decide on the current role and status, and
\* RefreshToken issues the new pair with the current role
C35_CurrentRecordDecides ==
    [][/\ \A guard \in RoleGuards :
            GuardedCall("p1", [prefix |-> "Bearer ",
                               rest |-> <<AccessCredential("u1", 3)>>], guard) =>
              LET ctx == result'.ctx
                  admitted ==
                      CASE guard = "RequireClient" -> {"CLIENT"}
                        [] guard = "RequireProfessional" -> {"PROFESSIONAL", "STAFF", "ADMIN"}
                        [] guard = "RequireAdmin" -> {"ADMIN"}
                        [] guard = "RequireOwnerOrAdmin" -> {"PROFESSIONAL", "ADMIN"}
              IN  /\ ~ctx.aborted <=> /\ users["u1"].status = "ACTIVE"
                                      /\ users["u1"].role \in admitted
                  /\ ~ctx.aborted => ctx.keys.userRole = users["u1"].role
       /\ RefreshTokenCall("p1", RefreshCredential("u1", UserRoleClient, 3))
            /\ users["u1"].status = "ACTIVE" =>
              /\ result'.err = "ok"
              /\ result'.accessToken.claims.role = users["u1"].role
              /\ result'.refreshToken.claims.role = users["u1"].role]_vars

====
